---- MODULE Spec2Model ----
(***************************************************************************)
(* State-machine model of src/thor/trace_route_action.cc:                  *)
(* thor_worker_t::trace_route, route_match, map_match, build_trace and     *)
(* build_route.  The matcher (meili OfflineMatch), path repair             *)
(* (MapMatcher::FormPath), the edge walker (RouteMatcher::FormPath) and    *)
(* TripLegBuilder::Build are collaborators outside this file: their        *)
(* results are drawn nondeterministically, and a Leg is recorded as the    *)
(* arguments TripLegBuilder::Build received.                               *)
(***************************************************************************)
EXTENDS Integers, Sequences, FiniteSets, TLC

VARIABLES
  pc,            \* position in trace_route and its callees
  shape_match,   \* options.shape_match()
  action,        \* options.action()
  format,        \* options.format()
  best_paths,    \* options.best_paths()
  trace_size,    \* trace.size()
  shape,         \* options.shape(i), one Location per trace point
  trip,          \* request.trip(): a sequence of Routes, each a sequence of Legs
  err,           \* the code of the valhalla_exception_t leaving trace_route, 0 if none
  calls,         \* the strategies trace_route invoked so far, in order
  failed,        \* the strategies that threw
  topk_match_results, \* what matcher->OfflineMatch returned
  ri,            \* position of map_match's loop in topk_match_results
  map_match_results,  \* the tuples map_match collected so far
  paths,         \* the Paths of the interpretation being assembled
  match_results, \* its match results (result.results)
  p, s,          \* the Path and the segment the assembly loops are at
  last_id, edge_index, origin_match, dest_match, route_discontinuities, \* build_trace locals
  way_point_index, route, route_index,                                  \* build_route locals
  path_edges,    \* build_trace's concatenated edge sequence
  trip0          \* the Trip as it was when map_match was entered

vars == <<pc, shape_match, action, format, best_paths, trace_size, shape, trip, err, calls,
          failed, topk_match_results, ri, map_match_results, paths, match_results, p, s,
          last_id, edge_index, origin_match, dest_match, route_discontinuities,
          way_point_index, route, route_index, path_edges, trip0>>

\* ------------------------------------------------------------------ bounds
\* total number of edge segments the matcher reports in one request
MaxSegs == 3
\* longest edge sequence of one Path drawn for the concatenation check
MaxPathLen == 2

\* number of trace points: enough for MaxSegs segments that each end at a new
\* point, and one gap between two of them
NumPoints == MaxSegs + 2

\* ---------------------------------------------------------------- constants
\* std::numeric_limits<uint32_t>::max(), the "no waypoint" shape index: the value
\* (uint32_t)(-1), written here as -1 (it is only compared, never computed with)
NoWaypoint == 0 - 1

\* the default-constructed baldr::GraphId (invalid) that last_id starts as
InvalidId == 0 - 1

\* the valid edge identifiers (baldr::GraphId values). The code compares edge
\* identifiers only for equality, and only between neighbours (last_id against the
\* segment's, the vector's last edge against a Path's first): two identifiers
\* realise every pattern of equal and different neighbours.
Edges == {1, 2}
Points == 0..(NumPoints - 1)

\* ShapeMatch enum and the two actions that reach map_match
ShapeMatch == {"edge_walk", "map_snap", "walk_or_snap"}
Actions == {"trace_route", "trace_attributes"}
Formats == {"json", "osrm"}
\* the values of options.best_paths() (top_k) that requests are drawn with
BestPaths == {1, 2}

\* ------------------------------------------------------------- data model
\* meili::EdgeSegment: the fields the assembly reads
\* (first_match_idx/last_match_idx are -1 when the segment has no match point at
\* that end)
EdgeSegment == [edgeid : Edges, first_match_idx : {0 - 1} \cup Points,
                last_match_idx : {0 - 1} \cup Points, discontinuity : BOOLEAN]

\* meili::MatchResult: pt stands for the point's own data (lnglat, edgeid,
\* distance_from), which is a function of the trace point it was matched from
MatchResult(i, b, e) ==
  [pt |-> i, edge_index |-> 0 - 1, distance_along |-> 50,
   begins_discontinuity |-> b, ends_discontinuity |-> e]

\* valhalla::Location of options.shape(i) as parse_locations leaves it
ShapeLocation(i) == [pt |-> i, route_index |-> 0, shape_index |-> 0, path_edges |-> <<>>]

\* RouteDiscontinuity {exists, vrt, distance}; distances are in percent of the edge
AbsentHalf(d) == [present |-> FALSE, match |-> 0 - 1, distance |-> d]
PresentHalf(m) == [present |-> TRUE, match |-> m.pt, distance |-> m.distance_along]

Last(q) == q[Len(q)]

\* ----------------------------------------------------- matcher (external)
\* the largest match index a segment list mentions (-1 if none)
MaxIdx(l) ==
  LET used == {l[k].first_match_idx : k \in 1..Len(l)} \cup {l[k].last_match_idx : k \in 1..Len(l)}
  IN CHOOSE m \in used \cup {0 - 1} : \A u \in used : u <= m

\* The segments the matcher may report after the segments in l: match indices
\* increase along the list; a segment connected to its predecessor starts where
\* the predecessor ended (at the same match point, or at no match point for both);
\* a discontinuity is flagged at a match point and the next segment starts at a
\* later one; the first segment starts at the trace's first point, and points
\* after the last segment may be left unmatched.
NextSegments(l) ==
  LET hi == MaxIdx(l)
      firsts == IF l = <<>> THEN {0}
                ELSE IF Last(l).discontinuity THEN (hi + 1)..(NumPoints - 1)
                ELSE {Last(l).last_match_idx}
  IN UNION {
       {[edgeid |-> e, first_match_idx |-> f, last_match_idx |-> 0 - 1, discontinuity |-> FALSE] :
          e \in Edges}
       \cup
       {[edgeid |-> e, first_match_idx |-> f, last_match_idx |-> t, discontinuity |-> d] :
          e \in Edges, t \in ((IF f > hi THEN f ELSE hi) + 1)..(NumPoints - 1), d \in BOOLEAN}
       : f \in firsts}

RECURSIVE Chains(_)
Chains(k) ==
  IF k = 0 THEN {<<>>}
  ELSE UNION {{Append(l, seg) : seg \in NextSegments(l)} : l \in Chains(k - 1)}

\* the complete segment lists of k segments: the last segment ends at a match point
SegLists(k) == {l \in Chains(k) : Last(l).last_match_idx >= 0}

\* the match results of an interpretation: a match begins a discontinuity when a
\* flagged segment ends at it, and ends one when the segment after a flagged
\* segment starts at it
ResultsOf(segs) ==
  [i \in Points |->
     MatchResult(i,
       \E k \in 1..Len(segs) : segs[k].discontinuity /\ segs[k].last_match_idx = i,
       \E k \in 2..Len(segs) : segs[k - 1].discontinuity /\ segs[k].first_match_idx = i)]

\* the raw scores the matcher gives its interpretations
Scores == {2, 3}

\* the ranked interpretations of k segments (k = 0: the matcher found no path)
\* with a raw score among scores
Interpretations(k, scores) ==
  IF k = 0
    THEN {[score |-> sc, results |-> ResultsOf(<<>>), segments |-> <<>>] : sc \in scores}
    ELSE {[score |-> sc, results |-> ResultsOf(segs), segments |-> segs] :
            sc \in scores, segs \in SegLists(k)}

\* what the matcher may return: one interpretation of up to MaxSegs segments (its
\* raw score is not compared with any other), or two ranked interpretations of at
\* most one segment each
OneInterpretation == {<<i>> : i \in UNION {Interpretations(k, {2}) : k \in 0..MaxSegs}}
TwoInterpretations ==
  {<<i, j>> : i \in Interpretations(0, Scores) \cup Interpretations(1, Scores),
              j \in Interpretations(0, Scores) \cup Interpretations(1, Scores)}

\* matcher->OfflineMatch(trace, topk): the topk best interpretations, in rank order
OfflineMatch(topk) == IF topk >= 2 THEN TwoInterpretations ELSE OneInterpretation

\* ------------------------------------------------- path repair (external)
\* the edge sequence of a Path: its segments' edges, consecutive equal ones once
RECURSIVE Collapse(_)
Collapse(segs) ==
  IF Len(segs) <= 1 THEN [k \in 1..Len(segs) |-> segs[k].edgeid]
  ELSE IF segs[1].edgeid = segs[2].edgeid THEN Collapse(Tail(segs))
  ELSE <<segs[1].edgeid>> \o Collapse(Tail(segs))

\* cut the segment list after the positions in cuts
RECURSIVE CutAt(_, _, _)
CutAt(segs, cuts, from) ==
  IF from > Len(segs) THEN <<>>
  ELSE LET upto == IF \E c \in cuts : c >= from
                     THEN CHOOSE c \in cuts : c >= from /\ \A d \in cuts : d >= from => c <= d
                     ELSE Len(segs)
           part == SubSeq(segs, from, upto)
       IN <<[first |-> Collapse(part), second |-> part]>> \o CutAt(segs, cuts, upto + 1)

\* MapMatcher::FormPath: the Paths of an interpretation. A Path ends at every
\* discontinuity and may end at a match point between two connected segments (a
\* break point), so every Path starts and ends at a match point.
FormPath(segs) ==
  LET must == {k \in 1..(Len(segs) - 1) : segs[k].discontinuity}
      may == {k \in 1..(Len(segs) - 1) : ~segs[k].discontinuity /\ segs[k].last_match_idx >= 0}
  IN {CutAt(segs, must \cup extra, 1) : extra \in SUBSET may}

\* ------------------------------------------------------------ add_path_edge
\* add_path_edge(l, m): the Location's path edges become the one edge of match m
add_path_edge(loc, m) == [loc EXCEPT !.path_edges = <<[kind |-> "match", pt |-> m.pt]>>]

\* -------------------------------------------------------------------- Init
NoDiscontinuities == [k \in {} |-> <<AbsentHalf(0), AbsentHalf(0)>>]

Init ==
  /\ pc = "trace_route"
  /\ shape_match \in ShapeMatch
  /\ action \in Actions
  /\ best_paths \in BestPaths
  \* OSRM output is only supported for trace_route, with best_paths = 1
  /\ format \in IF action = "trace_route" /\ best_paths = 1 THEN Formats ELSE {"json"}
  /\ trace_size \in {0, NumPoints}
  /\ shape = [i \in 0..(trace_size - 1) |-> ShapeLocation(i)]
  /\ trip = <<>>
  /\ err = 0
  /\ calls = <<>>
  /\ failed = {}
  /\ topk_match_results = <<>>
  /\ ri = 0
  /\ map_match_results = <<>>
  /\ paths = <<>>
  /\ match_results = <<>>
  /\ p = 0
  /\ s = 0
  /\ last_id = InvalidId
  /\ edge_index = 0
  /\ origin_match = 0 - 1
  /\ dest_match = 0 - 1
  /\ route_discontinuities = NoDiscontinuities
  /\ way_point_index = 0
  /\ route = 0
  /\ route_index = 0
  /\ path_edges = <<>>
  /\ trip0 = <<>>

request_vars == <<shape_match, action, format, best_paths, trace_size>>
matcher_vars == <<topk_match_results, ri, map_match_results>>
trace_vars == <<last_id, edge_index, origin_match, dest_match, route_discontinuities, path_edges>>
route_vars == <<way_point_index, route, route_index>>
assembly_vars == <<paths, match_results, p, s>>

\* ------------------------------------------------------------- trace_route
\* the switch on options.shape_match(): the first strategy is invoked
TR_Dispatch ==
  /\ pc = "trace_route"
  /\ pc' = IF shape_match = "map_snap" THEN "map_match" ELSE "route_match"
  /\ calls' = Append(calls, IF shape_match = "map_snap" THEN "map_match" ELSE "route_match")
  /\ UNCHANGED <<request_vars, matcher_vars, trace_vars, route_vars, assembly_vars,
                 shape, trip, err, failed, trip0>>

\* route_match: RouteMatcher::FormPath finds the exact path or not (it finds none
\* for an empty trace); on success one Route with one Leg is added
RouteMatch ==
  /\ pc = "route_match"
  /\ \E found \in IF trace_size = 0 THEN {FALSE} ELSE BOOLEAN :
       IF found
         THEN /\ trip' = Append(trip, <<[by |-> "route_match", edges |-> <<>>,
                                         origin |-> 0 - 1, dest |-> 0 - 1,
                                         discontinuities |-> NoDiscontinuities]>>)
              /\ pc' = "done"
              /\ UNCHANGED failed
         ELSE /\ failed' = failed \cup {"route_match"}
              /\ pc' = "route_match_threw"
              /\ UNCHANGED trip
  /\ UNCHANGED <<request_vars, matcher_vars, trace_vars, route_vars, assembly_vars,
                 shape, err, calls, trip0>>

\* mutant: edge_walk falls back to map matching as walk_or_snap does
TR_CatchEdgeWalk_Fallback ==
  /\ pc = "route_match_threw"
  /\ shape_match = "edge_walk"
  /\ calls' = Append(calls, "map_match")
  /\ pc' = "map_match"
  /\ UNCHANGED <<request_vars, matcher_vars, trace_vars, route_vars, assembly_vars,
                 shape, trip, err, failed, trip0>>

\* case edge_walk: catch (...) { throw valhalla_exception_t{443, ...}; }
TR_CatchEdgeWalk ==
  /\ pc = "route_match_threw"
  /\ shape_match = "edge_walk"
  /\ err' = 443
  /\ pc' = "done"
  /\ UNCHANGED <<request_vars, matcher_vars, trace_vars, route_vars, assembly_vars,
                 shape, trip, calls, failed, trip0>>

\* case walk_or_snap: catch (...) { LOG_WARN(...); map_match(request) ... }
TR_CatchWalkOrSnap ==
  /\ pc = "route_match_threw"
  /\ shape_match = "walk_or_snap"
  /\ calls' = Append(calls, "map_match")
  /\ pc' = "map_match"
  /\ UNCHANGED <<request_vars, matcher_vars, trace_vars, route_vars, assembly_vars,
                 shape, trip, err, failed, trip0>>

\* mutant: the failure of map_match is swallowed
TR_CatchMapMatch_Swallowed ==
  /\ pc = "map_match_threw"
  /\ err' = 0
  /\ pc' = "done"
  /\ UNCHANGED <<request_vars, matcher_vars, trace_vars, route_vars, assembly_vars,
                 shape, trip, calls, failed, trip0>>

\* map_snap and the walk_or_snap fallback: catch (...) { throw valhalla_exception_t{442}; }
TR_CatchMapMatch ==
  /\ pc = "map_match_threw"
  /\ err' = 442
  /\ pc' = "done"
  /\ UNCHANGED <<request_vars, matcher_vars, trace_vars, route_vars, assembly_vars,
                 shape, trip, calls, failed, trip0>>

\* --------------------------------------------------------------- map_match
\* int topk = action == trace_attributes ? best_paths : 1
TopK == IF action = "trace_attributes" THEN best_paths ELSE 1

\* mutant: the matcher is asked even for an empty trace
TraceEmpty_Never == FALSE

\* trace.size() == 0
TraceEmpty == trace_size = 0

\* the entry of map_match up to matcher->OfflineMatch(trace, topk)
MM_Start ==
  /\ pc = "map_match"
  /\ trip0' = trip
  /\ map_match_results' = <<>>
  /\ IF TraceEmpty
       THEN /\ pc' = "done"
            /\ UNCHANGED <<topk_match_results, ri>>
       ELSE /\ topk_match_results' \in OfflineMatch(TopK)
            /\ ri' = 1
            /\ pc' = "mm_loop"
  /\ UNCHANGED <<request_vars, trace_vars, route_vars, assembly_vars,
                 shape, trip, err, calls, failed>>

\* OSRM enrichment of options.shape(i) from the match results: one path edge per
\* match (every match is valid and its state has one candidate edge)
Enrich(sh, results) ==
  [i \in DOMAIN sh |->
     IF i \in DOMAIN results
       THEN [sh[i] EXCEPT !.path_edges = Append(@, [kind |-> "osrm", pt |-> results[i].pt])]
       ELSE sh[i]]

\* one iteration of the loop over topk_match_results, up to the call of
\* build_trace or build_route
MM_Interp ==
  /\ pc = "mm_loop"
  /\ ri <= Len(topk_match_results)
  /\ LET result == topk_match_results[ri] IN
       IF result.segments = <<>>
         THEN \* there is no path: throw std::exception{}
              /\ failed' = failed \cup {"map_match"}
              /\ pc' = "map_match_threw"
              /\ UNCHANGED <<shape, assembly_vars, trace_vars, route_vars>>
         ELSE /\ paths' \in FormPath(result.segments)
              /\ match_results' = result.results
              /\ shape' = IF action = "trace_route" /\ format = "osrm"
                            THEN Enrich(shape, result.results) ELSE shape
              /\ p' = 1
              /\ s' = 1
              /\ IF action = "trace_attributes"
                   THEN \* build_trace's locals
                        /\ route_discontinuities' = NoDiscontinuities
                        /\ last_id' = InvalidId
                        /\ edge_index' = 0
                        /\ origin_match' = 0 - 1
                        /\ dest_match' = 0 - 1
                        /\ path_edges' = <<>>
                        /\ pc' = "build_trace_segment"
                        /\ UNCHANGED route_vars
                   ELSE \* build_route's locals
                        /\ way_point_index' = 0
                        /\ route' = 0
                        /\ route_index' = 0
                        /\ pc' = "build_route"
                        /\ UNCHANGED trace_vars
              /\ UNCHANGED failed
  /\ UNCHANGED <<request_vars, matcher_vars, trip, err, calls, trip0>>

\* mutant: the division is the wrong way round
RelativeScore_Inverted(kept, score) ==
  IF kept = <<>> THEN <<1, 1>> ELSE <<score, kept[1].raw>>

\* map_match_results.empty() ? 1.0f
\*   : std::get<kRawScoreIndex>(map_match_results.front()) / result.score
\* as the pair <<numerator, denominator>> of the float division
RelativeScore(kept, score) ==
  IF kept = <<>> THEN <<1, 1>> ELSE <<kept[1].raw, score>>

\* map_match_results.emplace_back(relative score, result.score, result.results)
MM_Keep ==
  /\ pc = "mm_keep"
  /\ LET result == topk_match_results[ri] IN
       map_match_results' =
         Append(map_match_results,
                [confidence |-> RelativeScore(map_match_results, result.score),
                 raw |-> result.score,
                 results |-> match_results])
  /\ ri' = ri + 1
  /\ pc' = "mm_loop"
  /\ UNCHANGED <<request_vars, topk_match_results, trace_vars, route_vars, assembly_vars,
                 shape, trip, err, calls, failed, trip0>>

\* return map_match_results
MM_Return ==
  /\ pc = "mm_loop"
  /\ ri > Len(topk_match_results)
  /\ pc' = "done"
  /\ UNCHANGED <<request_vars, matcher_vars, trace_vars, route_vars, assembly_vars,
                 shape, trip, err, calls, failed, trip0>>

\* ------------------------------------------------------------- build_trace
\* mutant: the edge index is written one match too early
Stamp_OffByOne(results, idx, value) ==
  [results EXCEPT ![IF idx > 0 THEN idx - 1 ELSE idx].edge_index = value]

\* match_results[idx].edge_index = edge_index
Stamp(results, idx, value) == [results EXCEPT ![idx].edge_index = value]

\* mutant: the edge identifier is taken as the new index
NextEdgeIndex_ById(last, edgeid, index) == IF last # edgeid THEN edgeid ELSE index

\* if (last_id != segment->edgeid) { ++edge_index; }
NextEdgeIndex(last, edgeid, index) == IF last # edgeid THEN index + 1 ELSE index

\* one iteration of the loop over a Path's segments: stamp the global edge index
\* on the segment's matches, remember the origin and destination match, and
\* advance the edge index
BT_Segment ==
  /\ pc = "build_trace_segment"
  /\ LET segment == paths[p].second[s]
         stamped1 == IF segment.first_match_idx >= 0
                       THEN Stamp(match_results, segment.first_match_idx, edge_index)
                       ELSE match_results
         origin1 == IF segment.first_match_idx >= 0 /\ origin_match < 0
                       THEN segment.first_match_idx ELSE origin_match
         stamped2 == IF segment.last_match_idx >= 0
                       THEN Stamp(stamped1, segment.last_match_idx, edge_index)
                       ELSE stamped1
         dest1 == IF segment.last_match_idx >= 0 /\ dest_match < 0
                       THEN segment.last_match_idx ELSE dest_match
     IN /\ match_results' = stamped2
        /\ origin_match' = origin1
        /\ dest_match' = dest1
        /\ edge_index' = NextEdgeIndex(last_id, segment.edgeid, edge_index)
        /\ last_id' = segment.edgeid
  /\ IF s < Len(paths[p].second)
       THEN s' = s + 1 /\ pc' = pc
       ELSE s' = s /\ pc' = "build_trace_discontinuity"
  /\ UNCHANGED <<request_vars, matcher_vars, route_vars, paths, p, route_discontinuities,
                 path_edges, shape, trip, err, calls, failed, trip0>>

\* route_discontinuities[k] of the unordered_map: a missing entry is
\* value-initialised (both halves absent, distance 0)
EntryAt(map, k) == IF k \in DOMAIN map THEN map[k] ELSE <<AbsentHalf(0), AbsentHalf(0)>>

\* mutant: the end half is left value-initialised
EndsDiscontinuity_DefaultEnd(map, first_match) ==
  [k \in DOMAIN map \cup {first_match.edge_index} |->
     IF k = first_match.edge_index THEN <<PresentHalf(first_match), AbsentHalf(0)>>
     ELSE map[k]]

\* route_discontinuities[first_match.edge_index] = {{true, ...}, {false, {}, 1.f}}
EndsDiscontinuity(map, first_match) ==
  [k \in DOMAIN map \cup {first_match.edge_index} |->
     IF k = first_match.edge_index THEN <<PresentHalf(first_match), AbsentHalf(100)>>
     ELSE map[k]]

\* mutant: the start of a discontinuity is not recorded
BeginsDiscontinuity_Ignored(map, last_match) == map

\* route_discontinuities[last_match.edge_index].second = {true, ...}
BeginsDiscontinuity(map, last_match) ==
  [k \in DOMAIN map \cup {last_match.edge_index} |->
     IF k = last_match.edge_index THEN <<EntryAt(map, k)[1], PresentHalf(last_match)>>
     ELSE map[k]]

\* what a read of results[idx] may yield: the element, or, for an index outside
\* the vector (undefined behaviour), whatever the memory there holds
GarbageMatches ==
  {[pt |-> 0 - 1, edge_index |-> g, distance_along |-> 50,
    begins_discontinuity |-> b, ends_discontinuity |-> e] :
     g \in {0, 9}, b \in BOOLEAN, e \in BOOLEAN}

\* const auto& m = match_results[idx]
ReadMatch(results, idx) ==
  IF idx \in DOMAIN results THEN {results[idx]} ELSE GarbageMatches

\* whether an access at these indices may end the process (only an access outside
\* the array may)
MayCrash(arr, indices) == IF indices \subseteq DOMAIN arr THEN {FALSE} ELSE BOOLEAN

\* after a Path's segments: the end of a discontinuity at the Path's first match,
\* then the start of one at its last match
BT_Discontinuity ==
  /\ pc = "build_trace_discontinuity"
  /\ LET first_segment == paths[p].second[1]
         last_segment == Last(paths[p].second)
     IN \E first_match \in ReadMatch(match_results, first_segment.first_match_idx),
           last_match \in ReadMatch(match_results, last_segment.last_match_idx),
           crash \in MayCrash(match_results, {first_segment.first_match_idx,
                                              last_segment.last_match_idx}) :
          IF crash
            THEN /\ pc' = "crashed"
                 /\ UNCHANGED <<route_discontinuities, p, s>>
            ELSE /\ LET ended == IF first_match.ends_discontinuity
                                   THEN EndsDiscontinuity(route_discontinuities, first_match)
                                   ELSE route_discontinuities
                    IN route_discontinuities' = IF last_match.begins_discontinuity
                                                  THEN BeginsDiscontinuity(ended, last_match)
                                                  ELSE ended
                 /\ IF p < Len(paths)
                      THEN p' = p + 1 /\ s' = 1 /\ pc' = "build_trace_segment"
                      ELSE p' = p /\ s' = s /\ pc' = "build_trace_finish"
  /\ UNCHANGED <<request_vars, matcher_vars, route_vars, paths, match_results, last_id,
                 edge_index, origin_match, dest_match, path_edges, shape, trip, err, calls,
                 failed, trip0>>

\* mutant: the Paths are appended whole, a shared boundary edge twice
RECURSIVE ConcatPaths_NoMerge(_, _)
ConcatPaths_NoMerge(acc, ps) ==
  IF ps = <<>> THEN acc ELSE ConcatPaths_NoMerge(acc \o Head(ps).first, Tail(ps))

\* mutant: the first edge of every Path but the first is left out
MergeLastEdge_Always(acc, first) == acc # <<>>

\* bool merge_last_edge =
\*   !path_edges.empty() && path_edges.back().edgeid == path.first.front().edgeid
MergeLastEdge(acc, first) == acc # <<>> /\ Last(acc) = first[1]

\* smash all the path edges into a single vector: a Path's first edge is left out
\* when it is the edge the vector ends with
RECURSIVE ConcatPaths(_, _)
ConcatPaths(acc, ps) ==
  IF ps = <<>> THEN acc
  ELSE LET first == Head(ps).first
           merge_last_edge == MergeLastEdge(acc, first)
       IN ConcatPaths(acc \o SubSeq(first, IF merge_last_edge THEN 2 ELSE 1, Len(first)),
                      Tail(ps))

\* after the loop over the Paths: fail without an origin or destination match,
\* else fill the two Locations, concatenate the Paths and add one Route of one Leg
BT_Finish ==
  /\ pc = "build_trace_finish"
  /\ IF origin_match < 0 \/ dest_match < 0
       THEN \* throw valhalla_exception_t{442}
            /\ failed' = failed \cup {"map_match"}
            /\ pc' = "map_match_threw"
            /\ UNCHANGED <<shape, path_edges, trip>>
       ELSE LET origin_filled == [shape EXCEPT ![origin_match] =
                                    add_path_edge(@, match_results[origin_match])]
                edges == ConcatPaths(<<>>, paths)
            IN /\ shape' = [origin_filled EXCEPT ![dest_match] =
                              add_path_edge(@, match_results[dest_match])]
               /\ path_edges' = edges
               /\ trip' = Append(trip, <<[by |-> "build_trace", edges |-> edges,
                                          origin |-> origin_match, dest |-> dest_match,
                                          discontinuities |-> route_discontinuities]>>)
               /\ pc' = "mm_keep"
               /\ UNCHANGED failed
  /\ UNCHANGED <<request_vars, matcher_vars, route_vars, assembly_vars, last_id, edge_index,
                 origin_match, dest_match, route_discontinuities, err, calls, trip0>>

\* ------------------------------------------------------------- build_route
\* mutant: the span is stamped without its two ends
StampSpan_Exclusive(sh, lo, hi, ridx) ==
  [i \in DOMAIN sh |->
     IF lo < i /\ i < hi
       THEN [sh[i] EXCEPT !.route_index = ridx, !.shape_index = NoWaypoint]
       ELSE sh[i]]

\* options.mutable_shape(i)->set_route_index / set_shape_index for i in lo..hi
StampSpan(sh, lo, hi, ridx) ==
  [i \in DOMAIN sh |->
     IF lo <= i /\ i <= hi
       THEN [sh[i] EXCEPT !.route_index = ridx, !.shape_index = NoWaypoint]
       ELSE sh[i]]

\* options.mutable_shape(i)->set_<field>(value); a write outside the array does
\* not land in it
SetAt(sh, i, fld, value) ==
  [k \in DOMAIN sh |-> IF k = i THEN [sh[k] EXCEPT ![fld] = value] ELSE sh[k]]

\* add_path_edge(options.mutable_shape(i), match)
FillAt(sh, i, match) ==
  [k \in DOMAIN sh |-> IF k = i THEN add_path_edge(sh[k], match) ELSE sh[k]]

\* mutant: every Path closes the Route
ClosesRoute_Always(path) == TRUE

\* if (path.second.back()->discontinuity): the Route ends with this Path
ClosesRoute(path) == Last(path.second).discontinuity

\* mutant: the waypoint numbering is not restarted with a new Route
FirstWayPoint_NoRestart(open, index) == index

\* if (route == nullptr) { ...; way_point_index = 0; }
FirstWayPoint(open, index) == IF open = 0 THEN 0 ELSE index

\* one iteration of the loop over the Paths: open a Route if none is open, stamp
\* the Path's span, number and fill its origin and destination, append its Leg,
\* and close the Route after a discontinuity
BR_Path ==
  /\ pc = "build_route"
  /\ LET path == paths[p]
         origin_match_idx == path.second[1].first_match_idx
         dest_match_idx == Last(path.second).last_match_idx
     IN \E origin_match_ \in ReadMatch(match_results, origin_match_idx),
           dest_match_ \in ReadMatch(match_results, dest_match_idx),
           crash \in MayCrash(shape, {origin_match_idx, dest_match_idx}) :
          IF crash
            THEN /\ pc' = "crashed"
                 /\ UNCHANGED <<shape, way_point_index, trip, route_index, route, p>>
            ELSE LET opened == IF route = 0 THEN Append(trip, <<>>) ELSE trip
                     route1 == IF route = 0 THEN Len(opened) ELSE route
                     wpi == FirstWayPoint(route, way_point_index)
                     spanned == StampSpan(shape, origin_match_idx, dest_match_idx, route_index)
                     numbered1 == SetAt(spanned, origin_match_idx, "shape_index", wpi)
                     numbered2 == SetAt(numbered1, dest_match_idx, "shape_index", wpi + 1)
                     filled1 == FillAt(numbered2, origin_match_idx, origin_match_)
                     filled2 == FillAt(filled1, dest_match_idx, dest_match_)
                     leg == [by |-> "build_route", edges |-> path.first,
                             origin |-> origin_match_idx, dest |-> dest_match_idx,
                             discontinuities |-> NoDiscontinuities]
                 IN /\ shape' = filled2
                    /\ way_point_index' = wpi + 1
                    /\ trip' = [opened EXCEPT ![route1] = Append(@, leg)]
                    /\ IF ClosesRoute(path)
                         THEN route_index' = route_index + 1 /\ route' = 0
                         ELSE route_index' = route_index /\ route' = route1
                    /\ IF p < Len(paths)
                         THEN p' = p + 1 /\ pc' = pc
                         ELSE p' = p /\ pc' = "mm_keep"
  /\ UNCHANGED <<request_vars, matcher_vars, trace_vars, paths, match_results, s,
                 err, calls, failed, trip0>>

\* ---------------------------------------------------------- specification
Next ==
  \/ TR_Dispatch
  \/ RouteMatch
  \/ TR_CatchEdgeWalk
  \/ TR_CatchWalkOrSnap
  \/ TR_CatchMapMatch
  \/ MM_Start
  \/ MM_Interp
  \/ MM_Keep
  \/ MM_Return
  \/ BT_Segment
  \/ BT_Discontinuity
  \/ BT_Finish
  \/ BR_Path

Spec == Init /\ [][Next]_vars

\* ------------------------------------- the concatenation of build_trace alone
\* the edge sequences of one Path: 1 to MaxPathLen edges
RECURSIVE EdgeSeqs(_)
EdgeSeqs(n) ==
  IF n = 0 THEN {<<>>}
  ELSE {<<>>} \cup {<<e>> \o q : e \in Edges, q \in EdgeSeqs(n - 1)}

\* the Path lists the concatenation is applied to: 1 to MaxSegs Paths (a Path has
\* at least one segment), each with a non-empty edge sequence; the segments are
\* not read by the concatenation
RECURSIVE PathLists(_)
PathLists(n) ==
  IF n = 0 THEN {<<>>}
  ELSE {<<>>} \cup {<<[first |-> q, second |-> <<>>]>> \o l :
                      q \in EdgeSeqs(MaxPathLen) \ {<<>>}, l \in PathLists(n - 1)}

InitConcat ==
  /\ pc = "concat_paths"
  /\ paths \in PathLists(MaxSegs) \ {<<>>}
  /\ shape_match = "map_snap"
  /\ action = "trace_attributes"
  /\ format = "json"
  /\ best_paths = 1
  /\ trace_size = 0
  /\ shape = <<>>
  /\ trip = <<>>
  /\ err = 0
  /\ calls = <<>>
  /\ failed = {}
  /\ topk_match_results = <<>>
  /\ ri = 0
  /\ map_match_results = <<>>
  /\ match_results = <<>>
  /\ p = 0
  /\ s = 0
  /\ last_id = InvalidId
  /\ edge_index = 0
  /\ origin_match = 0 - 1
  /\ dest_match = 0 - 1
  /\ route_discontinuities = NoDiscontinuities
  /\ way_point_index = 0
  /\ route = 0
  /\ route_index = 0
  /\ path_edges = <<>>
  /\ trip0 = <<>>

\* the loop that fills path_edges from the Paths
BT_Concat ==
  /\ pc = "concat_paths"
  /\ path_edges' = ConcatPaths(<<>>, paths)
  /\ pc' = "concat_done"
  /\ UNCHANGED <<request_vars, matcher_vars, route_vars, assembly_vars, last_id, edge_index,
                 origin_match, dest_match, route_discontinuities, shape, trip, err, calls,
                 failed, trip0>>

SpecConcat == InitConcat /\ [][BT_Concat]_vars

\* the segments of all Paths in walk order
RECURSIVE Flatten(_)
Flatten(ps) == IF ps = <<>> THEN <<>> ELSE Head(ps).second \o Flatten(Tail(ps))

\* ------------------------------- the assembly on arbitrary Paths (no matcher)
\* build_trace and build_route take any Path list: here the segments carry any
\* match index of a trace of two points, or -1, in any order
AssemblyPoints == {0, 1}

AnySegments ==
  [edgeid : Edges, first_match_idx : {0 - 1} \cup AssemblyPoints,
   last_match_idx : {0 - 1} \cup AssemblyPoints, discontinuity : BOOLEAN]

\* a Path over the given segments
PathOf(segs) == [first |-> Collapse(segs), second |-> segs]

\* the Path lists of at most two segments in all: none, one Path of one or two
\* segments, or two Paths of one segment each
AnyPaths ==
  {<<>>}
    \cup {<<PathOf(<<a>>)>> : a \in AnySegments}
    \cup {<<PathOf(<<a, b>>)>> : a \in AnySegments, b \in AnySegments}
    \cup {<<PathOf(<<a>>), PathOf(<<b>>)>> : a \in AnySegments, b \in AnySegments}

\* the state in which map_match calls build_trace or build_route
InitAssembly ==
  /\ action \in Actions
  /\ paths \in AnyPaths
  /\ pc = IF action = "trace_attributes"
            THEN (IF paths = <<>> THEN "build_trace_finish" ELSE "build_trace_segment")
            ELSE (IF paths = <<>> THEN "mm_keep" ELSE "build_route")
  /\ match_results = [i \in AssemblyPoints |-> ResultsOf(Flatten(paths))[i]]
  /\ shape_match = "map_snap"
  /\ format = "json"
  /\ best_paths = 1
  /\ trace_size = Cardinality(AssemblyPoints)
  /\ shape = [i \in AssemblyPoints |-> ShapeLocation(i)]
  /\ trip = <<>>
  /\ err = 0
  /\ calls = <<"map_match">>
  /\ failed = {}
  /\ topk_match_results = <<[score |-> 2, results |-> match_results,
                             segments |-> Flatten(paths)]>>
  /\ ri = 1
  /\ map_match_results = <<>>
  /\ p = 1
  /\ s = 1
  /\ last_id = InvalidId
  /\ edge_index = 0
  /\ origin_match = 0 - 1
  /\ dest_match = 0 - 1
  /\ route_discontinuities = NoDiscontinuities
  /\ way_point_index = 0
  /\ route = 0
  /\ route_index = 0
  /\ path_edges = <<>>
  /\ trip0 = <<>>

NextAssembly ==
  \/ BT_Segment
  \/ BT_Discontinuity
  \/ BT_Finish
  \/ BR_Path

SpecAssembly == InitAssembly /\ [][NextAssembly]_vars

\* -------------------------------------------------------------- claims
Range(q) == {q[k] : k \in 1..Len(q)}

\* C1: strategy selection is one-shot. edge_walk never invokes map_match, map_snap
\* never invokes route_match, walk_or_snap invokes route_match first and map_match
\* if and only if route_match failed; no strategy is invoked twice and route_match
\* never follows map_match.
C1_OneShotSelection ==
  /\ shape_match = "edge_walk" => calls \in {<<>>, <<"route_match">>}
  /\ shape_match = "map_snap" => calls \in {<<>>, <<"map_match">>}
  /\ shape_match = "walk_or_snap" =>
       /\ calls \in {<<>>, <<"route_match">>, <<"route_match", "map_match">>}
       /\ "map_match" \in Range(calls) => "route_match" \in failed
       /\ pc = "done" => ("map_match" \in Range(calls) <=> "route_match" \in failed)
  /\ pc = "done" => calls # <<>>

\* a walk_or_snap request that fell back to map matching and finished
C1_Witness ==
  /\ pc = "done"
  /\ shape_match = "walk_or_snap"
  /\ calls = <<"route_match", "map_match">>
  /\ err = 0
  /\ Len(trip) = 1

\* C2: a finished request carries error 443 exactly when the mode is edge_walk and
\* route_match failed, error 442 exactly when map_match was the last strategy
\* invoked and it failed, and no error otherwise.
C2_TypedErrors ==
  pc = "done" =>
    /\ err \in {0, 442, 443}
    /\ err = 443 <=> (shape_match = "edge_walk" /\ "route_match" \in failed)
    /\ err = 442 <=> (Last(calls) = "map_match" /\ "map_match" \in failed)

\* a walk_or_snap request whose edge walk and map match both failed
C2_Witness ==
  /\ pc = "done"
  /\ shape_match = "walk_or_snap"
  /\ failed = {"route_match", "map_match"}
  /\ err = 442

\* C3: when the matcher returned an interpretation without segments, at any rank,
\* map_match fails and the Trip is as it was when map_match was entered.
C3_NoPartialTrip ==
  (pc \in {"map_match_threw", "done"}
     /\ \E j \in 1..Len(topk_match_results) : topk_match_results[j].segments = <<>>)
  => ("map_match" \in failed /\ trip = trip0)

\* the edge_index a segment stamped: its first match is stamped by no later segment
StampOf(seg) == match_results[seg.first_match_idx].edge_index

AllMatched(segs) ==
  \A k \in 1..Len(segs) : segs[k].first_match_idx >= 0 /\ segs[k].last_match_idx >= 0

\* C4: when build_trace has walked all segments (all with match points at both
\* ends), the first segment stamped edge_index 0 and every later segment stamped
\* the index of the segment before it when both have the same edge identifier,
\* and one more when they differ.
C4_EdgeIndexPerTransition ==
  (pc = "build_trace_finish" /\ AllMatched(Flatten(paths))) =>
    LET segs == Flatten(paths) IN
      /\ StampOf(segs[1]) = 0
      /\ \A k \in 2..Len(segs) :
           StampOf(segs[k]) =
             StampOf(segs[k - 1]) + (IF segs[k].edgeid = segs[k - 1].edgeid THEN 0 ELSE 1)
      /\ match_results[Last(segs).last_match_idx].edge_index = StampOf(Last(segs))

\* the last match that a segment stamps, in walk order
LastStamped(segs) ==
  LET k == CHOOSE j \in 1..Len(segs) :
             /\ segs[j].last_match_idx >= 0
             /\ \A i \in (j + 1)..Len(segs) : segs[i].last_match_idx < 0
  IN segs[k].last_match_idx

\* the first match that a segment stamps, in walk order
FirstStamped(segs) ==
  LET k == CHOOSE j \in 1..Len(segs) :
             /\ segs[j].first_match_idx >= 0 \/ segs[j].last_match_idx >= 0
             /\ \A i \in 1..(j - 1) : segs[i].first_match_idx < 0 /\ segs[i].last_match_idx < 0
  IN IF segs[k].first_match_idx >= 0 THEN segs[k].first_match_idx ELSE segs[k].last_match_idx

\* C5: the Leg build_trace adds has as origin the shape location of the first
\* match stamped and as destination the shape location of the last match stamped,
\* each filled from that match.
C5_OriginAndDestination ==
  (pc = "mm_keep" /\ action = "trace_attributes") =>
    LET leg == Last(trip)[1]
        segs == Flatten(paths)
    IN /\ leg.origin = FirstStamped(segs)
       /\ leg.dest = LastStamped(segs)
       /\ shape[FirstStamped(segs)].path_edges = <<[kind |-> "match", pt |-> FirstStamped(segs)]>>
       /\ shape[LastStamped(segs)].path_edges = <<[kind |-> "match", pt |-> LastStamped(segs)]>>

InBuildTrace(at) ==
  at \in {"build_trace_segment", "build_trace_discontinuity", "build_trace_finish"}

\* every flagged Path boundary has its half of the discontinuity map present
DiscontinuitiesComplete(map, results, ps) ==
  \A k \in 1..Len(ps) :
    LET first_match == results[ps[k].second[1].first_match_idx]
        last_match == results[Last(ps[k].second).last_match_idx]
    IN /\ first_match.ends_discontinuity =>
            /\ first_match.edge_index \in DOMAIN map
            /\ map[first_match.edge_index][1].present
       /\ last_match.begins_discontinuity =>
            /\ last_match.edge_index \in DOMAIN map
            /\ map[last_match.edge_index][2].present

\* C6: in the map build_trace hands to the leg builder, every Path whose first
\* match ends a discontinuity has the begin half present at that match's
\* edge_index, every Path whose last match begins one has the end half present,
\* and a half once present is never reset while the Paths are processed.
C6_DiscontinuityMapComplete ==
  [][(InBuildTrace(pc) /\ InBuildTrace(pc')) =>
       /\ \A k \in DOMAIN route_discontinuities : \A h \in 1..2 :
            route_discontinuities[k][h].present =>
              /\ k \in DOMAIN route_discontinuities'
              /\ route_discontinuities'[k][h].present
       /\ pc' = "build_trace_finish" =>
            DiscontinuitiesComplete(route_discontinuities', match_results', paths')]_vars

\* the Path's trailing segment is flagged as a discontinuity
Flagged(k) == Last(paths[k].second).discontinuity

\* the flagged Paths before Path k
FlaggedBefore(k) == {j \in 1..(k - 1) : Flagged(j)}

\* the Route (among those added) that is open when Path k is processed
RouteOf(k) == 1 + Cardinality(FlaggedBefore(k))

\* the position of Path k's Leg in that Route
LegOf(k) ==
  LET opener == IF FlaggedBefore(k) = {} THEN 1
                ELSE 1 + (CHOOSE j \in FlaggedBefore(k) : \A i \in FlaggedBefore(k) : i <= j)
  IN k - opener + 1

\* the Routes added to the Trip since map_match was entered
AddedRoutes == SubSeq(trip, Len(trip0) + 1, Len(trip))

\* C7: build_route adds one Route plus one per flagged Path other than the last;
\* the Leg of each Path sits in the Route opened at the first Path or at the
\* latest Path following a flagged Path, in Path order, and no Route holds
\* anything else.
C7_RoutesPerDiscontinuity ==
  (pc = "mm_keep" /\ action = "trace_route") =>
    /\ Len(AddedRoutes) = 1 + Cardinality({j \in 1..(Len(paths) - 1) : Flagged(j)})
    /\ \A k \in 1..Len(paths) :
         /\ RouteOf(k) <= Len(AddedRoutes)
         /\ LegOf(k) <= Len(AddedRoutes[RouteOf(k)])
         /\ LET leg == AddedRoutes[RouteOf(k)][LegOf(k)]
            IN /\ leg.by = "build_route"
               /\ leg.edges = paths[k].first
               /\ leg.origin = paths[k].second[1].first_match_idx
               /\ leg.dest = Last(paths[k].second).last_match_idx
    /\ \A r \in 1..Len(AddedRoutes) :
         Len(AddedRoutes[r]) = Cardinality({k \in 1..Len(paths) : RouteOf(k) = r})

\* three Paths, a discontinuity after the first only: two Routes, the second with two Legs
C7_Witness ==
  /\ pc = "mm_keep"
  /\ action = "trace_route"
  /\ Len(paths) = 3
  /\ Flagged(1)
  /\ ~Flagged(2)
  /\ Len(AddedRoutes) = 2
  /\ Len(AddedRoutes[2]) = 2

\* C8: after build_route, in every added Route the origin of the first Leg
\* carries shape_index 0, the origin of the k-th Leg carries k - 1 and its
\* destination k, and two waypoint locations of one Route carry the same
\* shape_index only if they are the same location.
C8_WaypointNumbering ==
  (pc = "mm_keep" /\ action = "trace_route") =>
    \A r \in 1..Len(AddedRoutes) :
      LET legs == AddedRoutes[r]
          waypoints == {legs[k].origin : k \in 1..Len(legs)} \cup {legs[k].dest : k \in 1..Len(legs)}
      IN /\ shape[legs[1].origin].shape_index = 0
         /\ \A k \in 1..Len(legs) :
              /\ shape[legs[k].origin].shape_index = k - 1
              /\ shape[legs[k].dest].shape_index = k
         /\ \A a \in waypoints : \A b \in waypoints :
              shape[a].shape_index = shape[b].shape_index => a = b

\* a Route of two Legs followed by a new Route, whose numbering restarts
C8_Witness ==
  /\ pc = "mm_keep"
  /\ action = "trace_route"
  /\ Len(AddedRoutes) = 2
  /\ Len(AddedRoutes[1]) = 2
  /\ shape[AddedRoutes[1][2].dest].shape_index = 2
  /\ shape[AddedRoutes[2][1].origin].shape_index = 0

InAssembly(at) == InBuildTrace(at) \/ at = "build_route"

\* C9: every step of build_trace and build_route leaves the index sets of
\* match_results and of the shape locations unchanged and element i of each at
\* trace point i; of a match result a step changes at most edge_index, and only
\* a build_trace segment step does, at the first_match_idx or last_match_idx of
\* the segment it processes; a build_route step changes no match result.
C9_AlignmentPreserved ==
  [][InAssembly(pc) =>
       /\ DOMAIN match_results' = DOMAIN match_results
       /\ DOMAIN shape' = DOMAIN shape
       /\ \A i \in DOMAIN shape : shape[i].pt = i /\ shape'[i].pt = i
       /\ \A i \in DOMAIN match_results :
            /\ match_results[i].pt = i
            /\ match_results'[i] = [match_results[i] EXCEPT !.edge_index = match_results'[i].edge_index]
            /\ match_results'[i] # match_results[i] =>
                 /\ pc = "build_trace_segment"
                 /\ i \in {paths[p].second[s].first_match_idx, paths[p].second[s].last_match_idx}
       /\ pc = "build_route" => match_results' = match_results]_vars

\* build_trace has stamped a new edge_index on the last match of a later segment
\* and is about to fill a shape location
C9_Witness ==
  /\ pc = "build_trace_finish"
  /\ \E i \in DOMAIN match_results : i > 1 /\ match_results[i].edge_index > 0
  /\ \E i \in DOMAIN match_results : match_results[i].edge_index < 0

\* the Path list in which Paths k and k + 1 are already merged into one
MergedAt(ps, k) ==
  SubSeq(ps, 1, k - 1)
    \o <<[first |-> ps[k].first \o Tail(ps[k + 1].first), second |-> <<>>]>>
    \o SubSeq(ps, k + 2, Len(ps))

\* C10: whenever two neighbouring Paths end and start with the same edge
\* identifier, the concatenation of the Path list is the concatenation of the
\* list in which those two Paths are replaced by the single merged Path.
C10_IdempotentReMerge ==
  pc = "concat_done" =>
    \A k \in 1..(Len(paths) - 1) :
      Last(paths[k].first) = paths[k + 1].first[1] =>
        path_edges = ConcatPaths(<<>>, MergedAt(paths, k))

\* two Paths (P, e) and (e, Q) with P and Q non-empty were concatenated
C10_Witness ==
  /\ pc = "concat_done"
  /\ Len(paths) = 2
  /\ Len(paths[1].first) = 2
  /\ Len(paths[2].first) = 2
  /\ Last(paths[1].first) = paths[2].first[1]
  /\ Len(path_edges) = 3

\* the keys of a discontinuity map at which a half is present
Populated(map) == {k \in DOMAIN map : map[k][1].present \/ map[k][2].present}

\* the interpretation has exactly one internal gap: one Path other than the last
\* whose trailing segment is flagged, and no discontinuity begins at the last match
OneGap ==
  /\ Cardinality({k \in 1..(Len(paths) - 1) : Flagged(k)}) = 1
  /\ ~Flagged(Len(paths))

\* the Path after which the only gap lies
GapPath == CHOOSE k \in 1..(Len(paths) - 1) : Flagged(k)

\* the edge_index of the match that begins the gap, and of the match that ends it
GapBeginIndex == match_results[Last(paths[GapPath].second).last_match_idx].edge_index
GapEndIndex == match_results[paths[GapPath + 1].second[1].first_match_idx].edge_index

\* build_trace added exactly one Route of exactly one Leg for the single interpretation
OneRouteOneLeg ==
  /\ Len(trip) = Len(trip0) + 1
  /\ Len(Last(trip)) = 1
  /\ Last(trip)[1].by = "build_trace"

NoFlaggedMatch ==
  \A i \in DOMAIN match_results :
    ~match_results[i].begins_discontinuity /\ ~match_results[i].ends_discontinuity

\* C11 as stated: one Route with one Leg; the map handed to the leg builder is
\* empty when no match is flagged, and has exactly one populated entry, at the
\* gap's edge index, when there is exactly one internal gap.
C11_OneEntryPerGap ==
  (pc = "mm_keep" /\ action = "trace_attributes" /\ Len(topk_match_results) = 1) =>
    LET map == Last(trip)[1].discontinuities IN
      /\ OneRouteOneLeg
      /\ NoFlaggedMatch => DOMAIN map = {}
      /\ OneGap => /\ Cardinality(Populated(map)) = 1
                   /\ Populated(map) \subseteq {GapBeginIndex, GapEndIndex}

\* C11, amended: one Route with one Leg; the map is empty when no match is
\* flagged; with exactly one internal gap its entries are exactly those at the
\* edge_index of the match that begins the gap and of the match that ends it
\* (two entries when these differ, one when they coincide), the begin half
\* present at the latter and, when they differ, the end half at the former.
C11_EntriesOfOneGap ==
  (pc = "mm_keep" /\ action = "trace_attributes" /\ Len(topk_match_results) = 1) =>
    LET map == Last(trip)[1].discontinuities IN
      /\ OneRouteOneLeg
      /\ NoFlaggedMatch => DOMAIN map = {}
      /\ OneGap => /\ DOMAIN map = {GapBeginIndex, GapEndIndex}
                   /\ Populated(map) = DOMAIN map
                   /\ map[GapEndIndex][1].present
                   /\ GapBeginIndex # GapEndIndex =>
                        /\ map[GapBeginIndex][2].present
                        /\ ~map[GapBeginIndex][1].present
                        /\ ~map[GapEndIndex][2].present

\* a trace with one gap between two Paths was assembled into one Leg whose map
\* has two entries
C11_Witness ==
  /\ pc = "mm_keep"
  /\ action = "trace_attributes"
  /\ Len(topk_match_results) = 1
  /\ Len(paths) = 2
  /\ OneGap
  /\ Cardinality(DOMAIN Last(trip)[1].discontinuities) = 2

\* the matches that received an edge_index
Stamped == {i \in DOMAIN match_results : match_results[i].edge_index >= 0}

\* C12: while build_trace runs and when its stamping loop is finished, the
\* edge_index values of the stamped matches are non-decreasing in trace order.
C12_EdgeIndexMonotone ==
  InBuildTrace(pc) =>
    \A i \in Stamped : \A j \in Stamped :
      i < j => match_results[i].edge_index <= match_results[j].edge_index

\* the stamping loop is finished with three different edge_index values assigned
C12_Witness ==
  /\ pc = "build_trace_finish"
  /\ Cardinality({match_results[i].edge_index : i \in Stamped}) = 3

\* the waypoints of the Paths: every Path's origin and destination match
PathEnds ==
  {paths[k].second[1].first_match_idx : k \in 1..Len(paths)}
    \cup {Last(paths[k].second).last_match_idx : k \in 1..Len(paths)}

\* C13: after build_route every shape location in the span of a Path carries as
\* route_index the number, counted from 0, of the Route that holds the Path's
\* Leg (the number of flagged Paths before it), and every spanned location that
\* is no Path's origin or destination carries the "no waypoint" shape_index.
C13_RouteIndexOfSpan ==
  (pc = "mm_keep" /\ action = "trace_route") =>
    \A k \in 1..Len(paths) :
      \A i \in paths[k].second[1].first_match_idx..Last(paths[k].second).last_match_idx :
        /\ shape[i].route_index = RouteOf(k) - 1
        /\ AddedRoutes[shape[i].route_index + 1][LegOf(k)].origin = paths[k].second[1].first_match_idx
        /\ i \notin PathEnds => shape[i].shape_index = NoWaypoint

\* a trace with one gap: two Routes, route_index 0 then 1, and a spanned location
\* between a Path's ends
C13_Witness ==
  /\ pc = "mm_keep"
  /\ action = "trace_route"
  /\ Len(AddedRoutes) = 2
  /\ shape[0].route_index = 0
  /\ shape[NumPoints - 1].route_index = 1
  /\ \E i \in DOMAIN shape : i \notin PathEnds /\ shape[i].shape_index = NoWaypoint
                                /\ shape[i].route_index = 1

\* the sequences of a sequence, one after the other
RECURSIVE Join(_)
Join(qs) == IF qs = <<>> THEN <<>> ELSE Head(qs) \o Join(Tail(qs))

\* what the first n Paths contribute when Path k loses its first d[k] edges
Kept(d, n) == Join([k \in 1..n |-> SubSeq(paths[k].first, 1 + d[k], Len(paths[k].first))])

RECURSIVE SumTo(_, _)
SumTo(f, n) == IF n = 0 THEN 0 ELSE f[n] + SumTo(f, n - 1)

NoEqualNeighbours(q) == \A i \in 1..(Len(q) - 1) : q[i] # q[i + 1]

\* C14: the concatenated sequence is the Paths' edge sequences in Path order,
\* each without its first edge exactly when what was collected before it is
\* non-empty and ends with that edge identifier; its length is the sum of the
\* Paths' lengths minus the number of merged boundaries; and when no Path has
\* two equal neighbours inside, neither has the result.
C14_ConcatenationShape ==
  pc = "concat_done" =>
    /\ \E d \in [1..Len(paths) -> {0, 1}] :
         /\ path_edges = Kept(d, Len(paths))
         /\ \A k \in 1..Len(paths) :
              d[k] = 1 <=> /\ Kept(d, k - 1) # <<>>
                           /\ Last(Kept(d, k - 1)) = paths[k].first[1]
         /\ Len(path_edges) =
              SumTo([k \in 1..Len(paths) |-> Len(paths[k].first)], Len(paths))
                - SumTo(d, Len(paths))
    /\ (\A k \in 1..Len(paths) : NoEqualNeighbours(paths[k].first))
         => NoEqualNeighbours(path_edges)

\* three Paths, the second merged into the first and the third not merged
C14_Witness ==
  /\ pc = "concat_done"
  /\ Len(paths) = 3
  /\ Last(paths[1].first) = paths[2].first[1]
  /\ Last(paths[2].first) # paths[3].first[1]
  /\ Len(paths[2].first) = 2
  /\ Len(path_edges) = Len(paths[1].first) + 1 + Len(paths[3].first)

\* C15 as stated: in every entry of the map handed to the leg builder a half
\* that is not present has distance 0.
C15_AbsentHalfIsZero ==
  (pc = "mm_keep" /\ action = "trace_attributes") =>
    LET map == Last(trip)[1].discontinuities IN
      \A k \in DOMAIN map : \A h \in 1..2 : ~map[k][h].present => map[k][h].distance = 0

\* C15, amended: in every entry of the map handed to the leg builder a begin
\* half that is not present has distance 0 and an end half that is not present
\* has distance 1.0 (the whole edge, 100 percent).
C15_AbsentHalfDefaults ==
  (pc = "mm_keep" /\ action = "trace_attributes") =>
    LET map == Last(trip)[1].discontinuities IN
      \A k \in DOMAIN map :
        /\ ~map[k][1].present => map[k][1] = AbsentHalf(0)
        /\ ~map[k][2].present => map[k][2] = AbsentHalf(100)

\* a Leg whose map has an entry with only the begin half and one with only the
\* end half
C15_Witness ==
  /\ pc = "mm_keep"
  /\ action = "trace_attributes"
  /\ LET map == Last(trip)[1].discontinuities IN
       /\ \E k \in DOMAIN map : map[k][1].present /\ ~map[k][2].present
       /\ \E k \in DOMAIN map : ~map[k][1].present /\ map[k][2].present

\* map_match was invoked on a non-empty trace and returned
MapMatchSucceeded ==
  /\ pc = "done"
  /\ trace_size > 0
  /\ Last(calls) = "map_match"
  /\ "map_match" \notin failed

\* C16: a successful map_match returns one tuple per interpretation, in rank
\* order, with the interpretation's raw score and match results; the first
\* relative score is 1.0 and the k-th is the first raw score divided by the k-th;
\* for trace_attributes the Routes added are one per interpretation in the same
\* order, the k-th a single Leg over the edges of the k-th interpretation.
C16_TuplesPerInterpretation ==
  MapMatchSucceeded =>
    /\ Len(map_match_results) = Len(topk_match_results)
    /\ \A k \in 1..Len(topk_match_results) :
         /\ map_match_results[k].raw = topk_match_results[k].score
         /\ map_match_results[k].confidence =
              IF k = 1 THEN <<1, 1>>
              ELSE <<topk_match_results[1].score, topk_match_results[k].score>>
         /\ \A i \in DOMAIN topk_match_results[k].results :
              map_match_results[k].results[i] =
                [topk_match_results[k].results[i] EXCEPT
                   !.edge_index = map_match_results[k].results[i].edge_index]
    /\ action = "trace_attributes" =>
         /\ Len(AddedRoutes) = Len(topk_match_results)
         /\ \A k \in 1..Len(topk_match_results) :
              /\ Len(AddedRoutes[k]) = 1
              /\ AddedRoutes[k][1].by = "build_trace"
              /\ AddedRoutes[k][1].edges = Collapse(topk_match_results[k].segments)

\* two interpretations with different raw scores and different edges were
\* assembled and returned
C16_Witness ==
  /\ MapMatchSucceeded
  /\ action = "trace_attributes"
  /\ Len(map_match_results) = 2
  /\ map_match_results[2].confidence = <<2, 3>>
  /\ AddedRoutes[1][1].edges # AddedRoutes[2][1].edges

\* no segment supplies an origin match, or none supplies a destination match
NoCoverage ==
  \/ \A k \in 1..Len(Flatten(paths)) : Flatten(paths)[k].first_match_idx < 0
  \/ \A k \in 1..Len(Flatten(paths)) : Flatten(paths)[k].last_match_idx < 0

\* C17: for Paths without an origin match or without a destination match
\* build_trace ends by throwing 442, and until then no Route or Leg is added and
\* no shape location is modified.
C17_NoCoverageAtomic ==
  (action = "trace_attributes" /\ NoCoverage) =>
    /\ pc \in {"build_trace_segment", "build_trace_discontinuity", "build_trace_finish",
               "map_match_threw"}
    /\ pc = "map_match_threw" => "map_match" \in failed
    /\ trip = trip0
    /\ \A i \in DOMAIN shape : shape[i] = ShapeLocation(i)

\* C20: every index at which build_trace and build_route are about to access
\* match_results and the shape locations lies in the arrays, and neither ends in
\* an access outside them.
C20_IndicesInRange ==
  /\ pc # "crashed"
  /\ pc = "build_trace_segment" =>
       LET segment == paths[p].second[s] IN
         /\ segment.first_match_idx >= 0 => segment.first_match_idx \in DOMAIN match_results
         /\ segment.last_match_idx >= 0 => segment.last_match_idx \in DOMAIN match_results
  /\ pc = "build_trace_discontinuity" =>
       /\ paths[p].second[1].first_match_idx \in DOMAIN match_results
       /\ Last(paths[p].second).last_match_idx \in DOMAIN match_results
  /\ (pc = "build_trace_finish" /\ origin_match >= 0 /\ dest_match >= 0) =>
       {origin_match, dest_match} \subseteq DOMAIN shape
  /\ pc = "build_route" =>
       LET origin_match_idx == paths[p].second[1].first_match_idx
           dest_match_idx == Last(paths[p].second).last_match_idx
       IN /\ {origin_match_idx, dest_match_idx} \subseteq DOMAIN match_results
          /\ {origin_match_idx, dest_match_idx} \subseteq DOMAIN shape
          /\ origin_match_idx..dest_match_idx \subseteq DOMAIN shape

\* C18: on an empty trace the matcher is never invoked, map_match collects no
\* tuple and does not fail, and a request whose last strategy was map_match
\* finishes without error and with the Trip as it was when map_match was entered.
C18_EmptyTrace ==
  trace_size = 0 =>
    /\ topk_match_results = <<>>
    /\ map_match_results = <<>>
    /\ "map_match" \notin failed
    /\ ~InAssembly(pc)
    /\ (pc = "done" /\ "map_match" \in Range(calls)) =>
         /\ err = 0
         /\ trip = trip0
         /\ trip = <<>>

\* a walk_or_snap request on an empty trace whose edge walk failed has finished
C18_Witness ==
  /\ pc = "done"
  /\ trace_size = 0
  /\ shape_match = "walk_or_snap"
  /\ calls = <<"route_match", "map_match">>
  /\ failed = {"route_match"}
  /\ err = 0

\* the match indices segment k of segs stamped last: those of its ends that no
\* later segment stamps
StampedBy(segs, k) ==
  {i \in {segs[k].first_match_idx, segs[k].last_match_idx} :
     /\ i >= 0
     /\ \A j \in (k + 1)..Len(segs) :
          i \notin {segs[j].first_match_idx, segs[j].last_match_idx}}

\* C19: when build_trace has built the Leg, the edge_index of every stamped match
\* is a position (counted from 0) of the concatenated edge sequence, the edge at
\* that position has the edge identifier of the segment that stamped the match,
\* and every key of the discontinuity map is such a position.
C19_EdgeIndexMatchesSequence ==
  (pc = "mm_keep" /\ action = "trace_attributes") =>
    LET segs == Flatten(paths)
        leg == Last(trip)[1]
    IN /\ \A k \in 1..Len(segs) : \A i \in StampedBy(segs, k) :
            /\ match_results[i].edge_index + 1 \in 1..Len(leg.edges)
            /\ leg.edges[match_results[i].edge_index + 1] = segs[k].edgeid
       /\ \A key \in DOMAIN leg.discontinuities : key + 1 \in 1..Len(leg.edges)

====
